---- MODULE Spec2Model ----
(***************************************************************************)
(* Authentication core of the contacts backend: the user directory         *)
(* (src/repository/users.py), the token service (src/services/auth.py)     *)
(* and the auth routes (src/routes/auth.py).                               *)
(*                                                                         *)
(* A JWT is modelled by the claim set python-jose signs plus the key it    *)
(* was signed with: HS256 over a JSON object with a fixed key order is a   *)
(* deterministic function of (sub, iat, exp, scope, key), so two tokens    *)
(* are the same string exactly when these five values agree.               *)
(***************************************************************************)
EXTENDS Integers, FiniteSets, Sequences, TLC

(* ------------------------------ bounds --------------------------------- *)
\* number of clock advances explored
MaxTicks == 1

(* ----------------------------- constants ------------------------------- *)
\* timedelta(minutes=15), in seconds
AccessTTL == 900
\* timedelta(days=7), in seconds
RefreshTTL == 604800
\* timedelta(days=7), in seconds
EmailTTL == 604800

Emails == {"alice", "bob"}
Passwords == {"p1", "p2"}
Salts == {"s1"}
\* the sub-second part of the instant a handler reads the clock at
USecs == {500000}
\* the emails that sign up; the other emails stay unknown to the directory
Registrants == {"alice"}
\* the clock advances by a second, or to just past a token lifetime
TickSteps == {1, RefreshTTL + 1}
Workers == {1, 2}

SECRET_KEY == "974790aec4ac460bdc11645decad4dce7c139b7f2982b7428ec44e886ea588c6"
ForeignKey == "forged"

\* Python's None
None == [none |-> TRUE]

VARIABLES
    users,      \* the users table: email -> row, or None when there is no row
    now,        \* the wall clock, whole seconds
    ticks,      \* number of clock advances so far
    resp,       \* the last request and its response
    retired,    \* history: stored tokens that were consumed or overwritten
    req,        \* refresh requests in flight, one per worker
    contacts,   \* the contacts table: a set of rows
    next_id     \* the next primary key of the contacts table

vars == <<users, now, ticks, resp, retired, req, contacts, next_id>>

(* ------------------------- datetime and jose --------------------------- *)
utcnow(us) == [sec |-> now, usec |-> us]

timedelta(dt, seconds) == [sec |-> dt.sec + seconds, usec |-> dt.usec]

\* jose.jwt.encode turns datetime claims into whole seconds with
\* timegm(dt.utctimetuple()), which drops the microseconds
timegm(dt) == dt.sec

jwt_encode(to_encode, key) ==
    [sub |-> to_encode.sub, iat |-> timegm(to_encode.iat),
     exp |-> timegm(to_encode.exp), scope |-> to_encode.scope, key |-> key]

\* jwt_decode without the check of exp
jwt_decode_no_exp(token, key) ==
    IF token.key # key THEN [ok |-> FALSE, err |-> "JWTError"]
    ELSE [ok |-> TRUE, sub |-> token.sub, iat |-> token.iat,
          exp |-> token.exp, scope |-> token.scope]

\* jose.jwt.decode: signature first, then exp (rejected when exp < now)
jwt_decode(token, key) ==
    IF token.key # key THEN [ok |-> FALSE, err |-> "JWTError"]
    ELSE IF token.exp < now THEN [ok |-> FALSE, err |-> "ExpiredSignatureError"]
    ELSE [ok |-> TRUE, sub |-> token.sub, iat |-> token.iat,
          exp |-> token.exp, scope |-> token.scope]

(* ---------------------------- class Auth ------------------------------- *)
get_password_hash(password, salt) ==
    [scheme |-> "bcrypt", salt |-> salt, digest |-> <<salt, password>>]

verify_password(plain_password, hashed_password) ==
    hashed_password.digest = <<hashed_password.salt, plain_password>>

\* Python truthiness of an Optional[float]: None and 0 are both false
Truthy(expires_delta) == expires_delta # None /\ expires_delta.seconds # 0

create_access_token(sub, expires_delta, us) ==
    LET expire == IF Truthy(expires_delta)
                  THEN timedelta(utcnow(us), expires_delta.seconds)
                  ELSE timedelta(utcnow(us), AccessTTL)
    IN jwt_encode([sub |-> sub, iat |-> utcnow(us), exp |-> expire,
                   scope |-> "access_token"], SECRET_KEY)

create_refresh_token(sub, expires_delta, us) ==
    LET expire == IF Truthy(expires_delta)
                  THEN timedelta(utcnow(us), expires_delta.seconds)
                  ELSE timedelta(utcnow(us), RefreshTTL)
    IN jwt_encode([sub |-> sub, iat |-> utcnow(us), exp |-> expire,
                   scope |-> "refresh_token"], SECRET_KEY)

\* create_email_token that writes the scope of a refresh token
create_email_token_refresh_scope(sub, us) ==
    jwt_encode([sub |-> sub, iat |-> utcnow(us),
                exp |-> timedelta(utcnow(us), EmailTTL),
                scope |-> "refresh_token"], SECRET_KEY)

create_email_token(sub, us) ==
    jwt_encode([sub |-> sub, iat |-> utcnow(us),
                exp |-> timedelta(utcnow(us), EmailTTL),
                scope |-> "email_token"], SECRET_KEY)

\* result of a verification: ok with the email, or the HTTPException raised
Raise(status, detail) == [ok |-> FALSE, status |-> status, detail |-> detail]

\* decode_refresh_token without the check of the scope
decode_refresh_token_any_scope(token) ==
    LET payload == jwt_decode(token, SECRET_KEY)
    IN IF ~payload.ok THEN Raise(401, "Could not validate credentials")
       ELSE [ok |-> TRUE, email |-> payload.sub]

decode_refresh_token(token) ==
    LET payload == jwt_decode(token, SECRET_KEY)
    IN IF ~payload.ok THEN Raise(401, "Could not validate credentials")
       ELSE IF payload.scope = "refresh_token"
            THEN [ok |-> TRUE, email |-> payload.sub]
            ELSE Raise(401, "Invalid scope for token")

get_email_from_token(token) ==
    LET payload == jwt_decode(token, SECRET_KEY)
    IN IF ~payload.ok THEN Raise(422, "Invalid token for email verification")
       ELSE IF payload.scope = "email_token"
            THEN [ok |-> TRUE, email |-> payload.sub]
            ELSE Raise(401, "Invalid scope for token")

(* ------------------------ repository/users.py -------------------------- *)
\* db is the users table; each update returns the table after db.commit()
get_user_by_email(email, db) == db[email]

\* a new row of the users table; the column defaults come from the model class
\* the primary key of the users table, one per row
UserId == [alice |-> 1, bob |-> 2]

NewUser(email, password) ==
    [id |-> UserId[email], email |-> email, password |-> password,
     confirmed |-> FALSE, refresh_token |-> None,
     password_reset_token |-> None, role |-> "user"]

create_user(email, password, db) ==
    [db EXCEPT ![email] = NewUser(email, password)]

\* update_token as an update without its WHERE clause: every row gets the token
update_token_every_row(email, new_token, db) ==
    [e \in DOMAIN db |->
        IF db[e] = None THEN None ELSE [db[e] EXCEPT !.refresh_token = new_token]]

\* update_token without its assignment
update_token_lost(email, new_token, db) == db

update_token(email, new_token, db) ==
    [db EXCEPT ![email].refresh_token = new_token]

\* confirmed_email without its assignment
repo_confirmed_email_lost(email, db) == db

repo_confirmed_email(email, db) == [db EXCEPT ![email].confirmed = TRUE]

\* update_password that also resets the confirmed flag
repo_update_password_unconfirms(email, new_password, db) ==
    [db EXCEPT ![email].password = new_password, ![email].confirmed = FALSE]

repo_update_password(email, new_password, db) ==
    [db EXCEPT ![email].password = new_password]

\* update_reset_token without its assignment
update_reset_token_lost(email, reset_token, db) == db

update_reset_token(email, reset_token, db) ==
    [db EXCEPT ![email].password_reset_token = reset_token]

(* --------------------------- Auth.get_current_user --------------------- *)
\* get_current_user bound to the session: a principal without a stored
\* refresh_token is turned away
get_current_user_session_bound(token) ==
    LET payload == jwt_decode(token, SECRET_KEY)
        user == get_user_by_email(payload.sub, users)
    IN IF token = None THEN Raise(401, "Not authenticated")
       ELSE IF ~payload.ok THEN Raise(401, "Could not validate credentials")
       ELSE IF payload.scope # "access_token"
            THEN Raise(401, "Could not validate credentials")
            ELSE IF user = None \/ user.refresh_token = None
                 THEN Raise(401, "Could not validate credentials")
                 ELSE [ok |-> TRUE, email |-> payload.sub]

\* Depends(oauth2_scheme) answers 401 when the request carries no bearer
\* token (None); then the body of get_current_user
get_current_user(token) ==
    LET payload == jwt_decode(token, SECRET_KEY)
    IN IF token = None THEN Raise(401, "Not authenticated")
       ELSE IF ~payload.ok THEN Raise(401, "Could not validate credentials")
       ELSE IF payload.scope # "access_token"
            THEN Raise(401, "Could not validate credentials")
            ELSE IF get_user_by_email(payload.sub, users) = None
                 THEN Raise(401, "Could not validate credentials")
                 ELSE [ok |-> TRUE, email |-> payload.sub]

(* ------------------------------ requests ------------------------------- *)
NoEmail == "-"
NoPassword == "-"

\* the record of one request and its response; replayed tells how the
\* presented token had been retired before the request, if it had
Response(op, status, detail, email, password, token, access, refresh, replayed) ==
    [op |-> op, status |-> status, detail |-> detail, email |-> email,
     password |-> password, token |-> token, access_token |-> access,
     refresh_token |-> refresh, replayed |-> replayed]

RetiredBy(token) == {r.by : r \in {x \in retired : x.token = token}}

Retire(token, by) ==
    IF token = None THEN retired ELSE retired \cup {[token |-> token, by |-> by]}

\* every clock reading the bounded clock can show
RECURSIVE ReachableTimes(_)
ReachableTimes(k) ==
    IF k = 0 THEN {0}
    ELSE LET prev == ReachableTimes(k - 1)
         IN prev \cup {t + d : t \in prev, d \in TickSteps}

TimePoints == ReachableTimes(MaxTicks)

TTLOf(scope) ==
    CASE scope = "access_token" -> AccessTTL
      [] scope = "refresh_token" -> RefreshTTL
      [] scope = "email_token" -> EmailTTL

Scopes == {"access_token", "refresh_token", "email_token"}

\* a token signed with a key that is not the service's
ForgedToken ==
    [sub |-> "alice", iat |-> 0, exp |-> RefreshTTL, scope |-> "refresh_token",
     key |-> ForeignKey]

\* the tokens a client can hold at the current time: whatever the service
\* key signs at a clock reading up to now, and a forged one
ClientTokens ==
    { [sub |-> e, iat |-> t, exp |-> t + TTLOf(sc), scope |-> sc,
       key |-> SECRET_KEY] :
        e \in Emails, t \in {tp \in TimePoints : tp <= now}, sc \in Scopes }
    \cup {ForgedToken}

\* the tokens of a given scope the service key signs for the registrants
RegistrantTokens(scope) ==
    {t \in ClientTokens :
        t.key = SECRET_KEY /\ t.sub \in Registrants /\ t.scope = scope}

(* --------------------------- routes/auth.py ---------------------------- *)
signup(email, password, salt) ==
    LET exist_user == get_user_by_email(email, users)
    IN /\ UNCHANGED <<now, ticks, contacts, next_id, retired, req>>
       /\ IF exist_user # None
          THEN /\ users' = users
               /\ resp' = Response("signup", 409, "Account already exists",
                                   email, password, None, None, None, {})
          ELSE /\ users' = create_user(email, get_password_hash(password, salt),
                                       users)
               /\ resp' = Response("signup", 201, "Email confirmed",
                                   email, password, None, None, None, {})

\* login without the check of the confirmed flag
login_unconfirmed_ok(email, password, us) ==
    LET user == get_user_by_email(email, users)
        Fail(detail) ==
            /\ users' = users
            /\ retired' = retired
            /\ resp' = Response("login", 401, detail, email, password,
                                None, None, None, {})
    IN /\ UNCHANGED <<now, ticks, contacts, next_id, req>>
       /\ IF user = None THEN Fail("Invalid email")
          ELSE IF ~verify_password(password, user.password)
               THEN Fail("Invalid password")
          ELSE LET access_token == create_access_token(user.email, None, us)
                   new_refresh == create_refresh_token(user.email, None, us)
               IN /\ users' = update_token(user.email, new_refresh, users)
                  /\ retired' = Retire(user.refresh_token, "login")
                  /\ resp' = Response("login", 200, "bearer", email, password,
                                      None, access_token, new_refresh, {})

\* login with the password checked before the confirmed flag
login_password_first(email, password, us) ==
    LET user == get_user_by_email(email, users)
        Fail(detail) ==
            /\ users' = users
            /\ retired' = retired
            /\ resp' = Response("login", 401, detail, email, password,
                                None, None, None, {})
    IN /\ UNCHANGED <<now, ticks, contacts, next_id, req>>
       /\ IF user = None THEN Fail("Invalid email")
          ELSE IF ~verify_password(password, user.password)
               THEN Fail("Invalid password")
          ELSE IF ~user.confirmed THEN Fail("Email not confirmed")
          ELSE LET access_token == create_access_token(user.email, None, us)
                   new_refresh == create_refresh_token(user.email, None, us)
               IN /\ users' = update_token(user.email, new_refresh, users)
                  /\ retired' = Retire(user.refresh_token, "login")
                  /\ resp' = Response("login", 200, "bearer", email, password,
                                      None, access_token, new_refresh, {})

login(email, password, us) ==
    LET user == get_user_by_email(email, users)
        Fail(detail) ==
            /\ users' = users
            /\ retired' = retired
            /\ resp' = Response("login", 401, detail, email, password,
                                None, None, None, {})
    IN /\ UNCHANGED <<now, ticks, contacts, next_id, req>>
       /\ IF user = None THEN Fail("Invalid email")
          ELSE IF ~user.confirmed THEN Fail("Email not confirmed")
          ELSE IF ~verify_password(password, user.password)
               THEN Fail("Invalid password")
          ELSE LET access_token == create_access_token(user.email, None, us)
                   new_refresh == create_refresh_token(user.email, None, us)
               IN /\ users' = update_token(user.email, new_refresh, users)
                  /\ retired' = Retire(user.refresh_token, "login")
                  /\ resp' = Response("login", 200, "bearer", email, password,
                                      None, access_token, new_refresh, {})

\* refresh_outcome with a mismatch that leaves the stored token alone
refresh_outcome_keep(token, email, user, us) ==
    IF user = None
    THEN [status |-> 500, detail |-> "AttributeError", write |-> FALSE,
          stored |-> None, access_token |-> None, refresh_token |-> None]
    ELSE IF user.refresh_token # token
    THEN [status |-> 401, detail |-> "Invalid refresh token", write |-> FALSE,
          stored |-> None, access_token |-> None, refresh_token |-> None]
    ELSE LET access_token == create_access_token(email, None, us)
             new_refresh == create_refresh_token(email, None, us)
         IN [status |-> 200, detail |-> "bearer", write |-> TRUE,
             stored |-> new_refresh, access_token |-> access_token,
             refresh_token |-> new_refresh]

\* lines 78-86 of refresh_token, on the row the request has loaded: the
\* response, and the value written to the row's refresh_token (write = FALSE
\* when the request ends without an update)
refresh_outcome(token, email, user, us) ==
    IF user = None
    \* user.refresh_token on None: AttributeError, answered 500
    THEN [status |-> 500, detail |-> "AttributeError", write |-> FALSE,
          stored |-> None, access_token |-> None, refresh_token |-> None]
    ELSE IF user.refresh_token # token
    THEN [status |-> 401, detail |-> "Invalid refresh token", write |-> TRUE,
          stored |-> None, access_token |-> None, refresh_token |-> None]
    ELSE LET access_token == create_access_token(email, None, us)
             new_refresh == create_refresh_token(email, None, us)
         IN [status |-> 200, detail |-> "bearer", write |-> TRUE,
             stored |-> new_refresh, access_token |-> access_token,
             refresh_token |-> new_refresh]

\* the update and the response that end a refresh request
refresh_finish(token, email, user, us) ==
    LET out == refresh_outcome(token, email, user, us)
    IN /\ users' = IF out.write THEN update_token(email, out.stored, users)
                   ELSE users
       /\ retired' = IF out.status = 200 THEN Retire(token, "rotation")
                     ELSE retired
       /\ resp' = Response("refresh_token", out.status, out.detail, email,
                           NoPassword, token, out.access_token,
                           out.refresh_token, RetiredBy(token))

\* the whole handler, with nothing running in between
refresh_token(token, us) ==
    LET decoded == decode_refresh_token(token)
    IN /\ UNCHANGED <<now, ticks, contacts, next_id, req>>
       /\ IF ~decoded.ok
          THEN /\ UNCHANGED <<users, retired>>
               /\ resp' = Response("refresh_token", decoded.status,
                                   decoded.detail, NoEmail, NoPassword, token,
                                   None, None, RetiredBy(token))
          ELSE refresh_finish(token, decoded.email,
                              get_user_by_email(decoded.email, users), us)

confirmed_email(token) ==
    LET decoded == get_email_from_token(token)
        Answer(status, detail, email) ==
            Response("confirmed_email", status, detail, email, NoPassword,
                     token, None, None, {})
    IN /\ UNCHANGED <<now, ticks, contacts, next_id, retired, req>>
       /\ IF ~decoded.ok
          THEN /\ users' = users
               /\ resp' = Answer(decoded.status, decoded.detail, NoEmail)
          ELSE LET email == decoded.email
                   user == get_user_by_email(email, users)
               IN IF user = None
                  THEN /\ users' = users
                       /\ resp' = Answer(400, "Verification error", email)
                  ELSE IF user.confirmed
                  THEN /\ users' = users
                       /\ resp' = Answer(200, "Your email is already confirmed",
                                         email)
                  ELSE /\ users' = repo_confirmed_email(email, users)
                       /\ resp' = Answer(200, "Email confirmed", email)

\* send_email(email, username, host) is queued with an extra keyword argument
\* payload=..., which it does not accept: the background task raises TypeError
\* after the response has been sent, and no mail and no token leave the service
request_email(email) ==
    LET user == get_user_by_email(email, users)
        Answer(detail) ==
            Response("request_email", 200, detail, email, NoPassword, None,
                     None, None, {})
    IN /\ UNCHANGED <<users, now, ticks, contacts, next_id, retired, req>>
       /\ IF user # None /\ user.confirmed
          THEN resp' = Answer("Your email is already confirmed")
          ELSE resp' = Answer("Check your email for confirmation.")

reset_password(email) ==
    LET user == get_user_by_email(email, users)
        Answer(detail) ==
            Response("reset_password", 200, detail, email, NoPassword, None,
                     None, None, {})
    IN /\ UNCHANGED <<users, now, ticks, contacts, next_id, retired, req>>
       /\ IF user # None
          THEN resp' = Answer("Check your email for the next step.")
          ELSE resp' = Answer("Your email is incorrect")

\* the reset token handed out travels in the access_token field of the record
password_reset_confirm(token, us) ==
    LET decoded == get_email_from_token(token)
        Answer(status, detail, email, issued) ==
            Response("password_reset_confirm", status, detail, email,
                     NoPassword, token, issued, None, {})
    IN /\ UNCHANGED <<now, ticks, contacts, next_id, retired, req>>
       /\ IF ~decoded.ok
          THEN /\ users' = users
               /\ resp' = Answer(decoded.status, decoded.detail, NoEmail, None)
          ELSE LET email == decoded.email
                   user == get_user_by_email(email, users)
               IN IF user = None
                  \* user.email on None: AttributeError, answered 500
                  THEN /\ users' = users
                       /\ resp' = Answer(500, "AttributeError", email, None)
                  ELSE LET reset_password_token ==
                               create_email_token(user.email, us)
                       IN /\ users' = update_reset_token(email,
                                          reset_password_token, users)
                          /\ resp' = Answer(200, "reset_password_token", email,
                                            reset_password_token)

\* set_new_password without the comparison with the stored reset token
update_password_any_token(token, new_password, confirm_password, salt) ==
    LET decoded == get_email_from_token(token)
        Answer(status, detail, email) ==
            Response("set_new_password", status, detail, email, new_password,
                     token, None, None, RetiredBy(token))
        Fail(status, detail, email) ==
            /\ UNCHANGED <<users, retired>>
            /\ resp' = Answer(status, detail, email)
    IN /\ UNCHANGED <<now, ticks, contacts, next_id, req>>
       /\ IF ~decoded.ok
          THEN Fail(decoded.status, decoded.detail, NoEmail)
          ELSE LET email == decoded.email
                   user == get_user_by_email(email, users)
               IN IF user = None
                  THEN Fail(400, "Verification error", email)
                  ELSE IF new_password # confirm_password
                  THEN Fail(401, "passwords do not match", email)
                  ELSE LET hashed == get_password_hash(new_password, salt)
                       IN /\ users' = update_reset_token(email, None,
                                        repo_update_password(email, hashed,
                                                             users))
                          /\ retired' = Retire(token, "reset")
                          /\ resp' = Answer(200,
                                            "Password successfully updated",
                                            email)

\* set_new_password that clears the reset token before it compares the passwords
update_password_clears_first(token, new_password, confirm_password, salt) ==
    LET decoded == get_email_from_token(token)
        Answer(status, detail, email) ==
            Response("set_new_password", status, detail, email, new_password,
                     token, None, None, RetiredBy(token))
        Fail(status, detail, email) ==
            /\ UNCHANGED <<users, retired>>
            /\ resp' = Answer(status, detail, email)
    IN /\ UNCHANGED <<now, ticks, contacts, next_id, req>>
       /\ IF ~decoded.ok
          THEN Fail(decoded.status, decoded.detail, NoEmail)
          ELSE LET email == decoded.email
                   user == get_user_by_email(email, users)
               IN IF user = None
                  THEN Fail(400, "Verification error", email)
                  ELSE IF user.password_reset_token # token
                  THEN Fail(401, "Invalid reset token", email)
                  ELSE IF new_password # confirm_password
                  THEN /\ users' = update_reset_token(email, None, users)
                       /\ retired' = retired
                       /\ resp' = Answer(401, "passwords do not match", email)
                  ELSE LET hashed == get_password_hash(new_password, salt)
                       IN /\ users' = update_reset_token(email, None,
                                        repo_update_password(email, hashed,
                                                             users))
                          /\ retired' = Retire(token, "reset")
                          /\ resp' = Answer(200,
                                            "Password successfully updated",
                                            email)

\* POST /set_new_password
update_password(token, new_password, confirm_password, salt) ==
    LET decoded == get_email_from_token(token)
        Answer(status, detail, email) ==
            Response("set_new_password", status, detail, email, new_password,
                     token, None, None, RetiredBy(token))
        Fail(status, detail, email) ==
            /\ UNCHANGED <<users, retired>>
            /\ resp' = Answer(status, detail, email)
    IN /\ UNCHANGED <<now, ticks, contacts, next_id, req>>
       /\ IF ~decoded.ok
          THEN Fail(decoded.status, decoded.detail, NoEmail)
          ELSE LET email == decoded.email
                   user == get_user_by_email(email, users)
               IN IF user = None
                  THEN Fail(400, "Verification error", email)
                  ELSE IF user.password_reset_token # token
                  THEN Fail(401, "Invalid reset token", email)
                  ELSE IF new_password # confirm_password
                  THEN Fail(401, "passwords do not match", email)
                  ELSE LET hashed == get_password_hash(new_password, salt)
                       IN /\ users' = update_reset_token(email, None,
                                        repo_update_password(email, hashed,
                                                             users))
                          /\ retired' = Retire(token, "reset")
                          /\ resp' = Answer(200,
                                            "Password successfully updated",
                                            email)

\* GET /api/users/me/: a route guarded by get_current_user alone
read_users_me(token) ==
    LET current == get_current_user(token)
        Answer(status, detail, email) ==
            Response("read_users_me", status, detail, email, NoPassword, token,
                     None, None, {})
    IN /\ UNCHANGED <<users, now, ticks, contacts, next_id, retired, req>>
       /\ IF ~current.ok
          THEN resp' = Answer(current.status, current.detail, NoEmail)
          ELSE resp' = Answer(200, "user", current.email)

Tick(d) ==
    /\ ticks < MaxTicks
    /\ now' = now + d
    /\ ticks' = ticks + 1
    /\ UNCHANGED <<users, resp, retired, req, contacts, next_id>>

(* ------------------------- services/role.py --------------------------- *)
Roles == {"admin", "moderator", "user"}

\* RoleAccess with a hierarchy: a role also passes every guard that admits
\* a lower role
RoleAccess_hierarchy(allowed_roles, user) ==
    LET rank == [admin |-> 3, moderator |-> 2, user |-> 1]
    IN IF \E r \in allowed_roles : rank[r] <= rank[user.role]
       THEN [ok |-> TRUE]
       ELSE Raise(403, "FORBIDDEN")

\* RoleAccess.__call__ on the user get_current_user returned
RoleAccess(allowed_roles, user) ==
    IF user.role \notin allowed_roles
    THEN Raise(403, "FORBIDDEN")
    ELSE [ok |-> TRUE]

\* a guard that reads the role of the token's subject before the token is
\* verified
Depends_role_first(allowed_roles, token) ==
    LET current == get_current_user(token)
        named == IF token = None THEN None
                 ELSE get_user_by_email(token.sub, users)
    IN IF named # None /\ ~RoleAccess(allowed_roles, named).ok
       THEN RoleAccess(allowed_roles, named)
       ELSE IF ~current.ok THEN current
       ELSE [ok |-> TRUE, user |-> get_user_by_email(current.email, users)]

\* Depends(guard): get_current_user first, then the guard on its user
Depends(allowed_roles, token) ==
    LET current == get_current_user(token)
    IN IF ~current.ok THEN current
       ELSE LET user == get_user_by_email(current.email, users)
                checked == RoleAccess(allowed_roles, user)
            IN IF ~checked.ok THEN checked
               ELSE [ok |-> TRUE, user |-> user]

\* a guard called for a request, with nothing behind it
role_access(allowed_roles, token) ==
    LET current == get_current_user(token)
        guarded == Depends(allowed_roles, token)
    IN /\ resp' = [op |-> "RoleAccess", allowed_roles |-> allowed_roles,
                   token |-> token,
                   email |-> IF current.ok THEN current.email ELSE NoEmail,
                   allowed |-> guarded.ok,
                   status |-> IF guarded.ok THEN 0 ELSE guarded.status,
                   detail |-> IF guarded.ok THEN "" ELSE guarded.detail]
       /\ UNCHANGED <<users, now, ticks, retired, req, contacts, next_id>>

(* ----------------------- repository/contacts.py ------------------------ *)
MaxContacts == 2

\* ContactModel bodies
Bodies ==
    {[firstname |-> "Ann", lastname |-> "Lee", email |-> "ann@x.org",
      phone |-> "111", birthday |-> "2000-02-29", is_favorite |-> FALSE],
     [firstname |-> "Bo", lastname |-> "Ray", email |-> "bo@x.org",
      phone |-> "222", birthday |-> "1999-12-31", is_favorite |-> TRUE]}

Limits == {1, 10}
Offsets == {0, 1}
ContactIds == 1..(MaxContacts + 1)

Min(a, b) == IF a < b THEN a ELSE b
Max(a, b) == IF a > b THEN a ELSE b

\* the pages .limit(limit).offset(offset) can return: the query has no
\* ORDER BY, so any rows of the right number
repository_contacts_get_contacts(user, limit, offset, db) ==
    LET owned == {c \in db : c.user_id = user.id}
        n == Min(limit, Max(0, Cardinality(owned) - offset))
    IN {page \in SUBSET owned : Cardinality(page) = n}

\* get_contact_by_id without the filter on the owner
repository_contacts_get_contact_by_id_any_owner(user, contact_id, db) ==
    LET found == {c \in db : c.id = contact_id}
    IN IF found = {} THEN None ELSE CHOOSE c \in found : TRUE

repository_contacts_get_contact_by_id(user, contact_id, db) ==
    LET found == {c \in db : c.user_id = user.id /\ c.id = contact_id}
    IN IF found = {} THEN None ELSE CHOOSE c \in found : TRUE

\* create that leaves is_favorite at the column default
repository_contacts_create_default_favorite(user, body, db) ==
    LET contact == [id |-> next_id, user_id |-> user.id,
                    firstname |-> body.firstname, lastname |-> body.lastname,
                    email |-> body.email, phone |-> body.phone,
                    birthday |-> body.birthday, is_favorite |-> FALSE]
    IN [db |-> db \cup {contact}, contact |-> contact]

\* the row Contact(**body.dict(), user_id=user.id) gets on commit
repository_contacts_create(user, body, db) ==
    LET contact == [id |-> next_id, user_id |-> user.id,
                    firstname |-> body.firstname, lastname |-> body.lastname,
                    email |-> body.email, phone |-> body.phone,
                    birthday |-> body.birthday,
                    is_favorite |-> body.is_favorite]
    IN [db |-> db \cup {contact}, contact |-> contact]

\* update that forgets the phone
repository_contacts_update_keeps_phone(user, contact_id, body, db) ==
    LET contact == repository_contacts_get_contact_by_id(user, contact_id, db)
    IN IF contact = None THEN [db |-> db, contact |-> None]
       ELSE LET updated == [contact EXCEPT
                               !.firstname = body.firstname,
                               !.lastname = body.lastname,
                               !.email = body.email,
                               !.birthday = body.birthday,
                               !.is_favorite = body.is_favorite]
            IN [db |-> (db \ {contact}) \cup {updated}, contact |-> updated]

repository_contacts_update(user, contact_id, body, db) ==
    LET contact == repository_contacts_get_contact_by_id(user, contact_id, db)
    IN IF contact = None THEN [db |-> db, contact |-> None]
       ELSE LET updated == [contact EXCEPT
                               !.firstname = body.firstname,
                               !.lastname = body.lastname,
                               !.email = body.email,
                               !.phone = body.phone,
                               !.birthday = body.birthday,
                               !.is_favorite = body.is_favorite]
            IN [db |-> (db \ {contact}) \cup {updated}, contact |-> updated]

\* remove without the delete
repository_contacts_remove_kept(user, contact_id, db) ==
    LET contact == repository_contacts_get_contact_by_id(user, contact_id, db)
    IN [db |-> db, contact |-> contact]

repository_contacts_remove(user, contact_id, db) ==
    LET contact == repository_contacts_get_contact_by_id(user, contact_id, db)
    IN IF contact = None THEN [db |-> db, contact |-> None]
       ELSE [db |-> db \ {contact}, contact |-> contact]

\* set_favorite that always marks the contact a favorite
repository_contacts_set_favorite_always(user, contact_id, is_favorite, db) ==
    LET contact == repository_contacts_get_contact_by_id(user, contact_id, db)
    IN IF contact = None THEN [db |-> db, contact |-> None]
       ELSE LET updated == [contact EXCEPT !.is_favorite = TRUE]
            IN [db |-> (db \ {contact}) \cup {updated}, contact |-> updated]

repository_contacts_set_favorite(user, contact_id, is_favorite, db) ==
    LET contact == repository_contacts_get_contact_by_id(user, contact_id, db)
    IN IF contact = None THEN [db |-> db, contact |-> None]
       ELSE LET updated == [contact EXCEPT !.is_favorite = is_favorite]
            IN [db |-> (db \ {contact}) \cup {updated}, contact |-> updated]

(* -------------------------- routes/contacts.py ------------------------- *)
allowed_operation_get == {"admin", "moderator", "user"}
allowed_operation_create == {"admin", "moderator", "user"}
\* a guard for update that admits the admin only
allowed_operation_update_admin_only == {"admin"}
allowed_operation_update == {"admin", "moderator"}
allowed_operation_remove == {"admin"}

\* the request and its answer: the caller is the user the bearer token
\* resolved to, returned is what the handler returned
Reply(op, status, detail, caller, contact_id, body, returned) ==
    [op |-> op, status |-> status, detail |-> detail, email |-> caller,
     contact_id |-> contact_id, body |-> body, returned |-> returned]

\* the caller's email once get_current_user has resolved the token
Caller(token) ==
    IF get_current_user(token).ok THEN get_current_user(token).email
    ELSE NoEmail

\* a request stopped by its dependencies: 401 from get_current_user or 403
\* from the guard
Stopped(op, guarded, token, contact_id, body) ==
    /\ resp' = Reply(op, guarded.status, guarded.detail, Caller(token),
                     contact_id, body, None)
    /\ UNCHANGED <<contacts, next_id>>

\* the answer of a handler for one contact: 404 when the repository
\* returned None
Found(op, status, out, token, contact_id, body) ==
    /\ contacts' = out.db
    /\ resp' = IF out.contact = None
               THEN Reply(op, 404, "Not Found", Caller(token), contact_id,
                          body, None)
               ELSE Reply(op, status, "", Caller(token), contact_id, body,
                          out.contact)

get_contacts(token, limit, offset) ==
    LET guarded == Depends(allowed_operation_get, token)
    IN /\ UNCHANGED <<users, now, ticks, retired, req>>
       /\ IF ~guarded.ok
          THEN Stopped("get_contacts", guarded, token, 0, None)
          ELSE /\ \E page \in repository_contacts_get_contacts(
                                 guarded.user, limit, offset, contacts) :
                     resp' = Reply("get_contacts", 200, "", Caller(token), 0,
                                   None, page)
               /\ UNCHANGED <<contacts, next_id>>

get_contact(token, contact_id) ==
    LET guarded == Depends(allowed_operation_get, token)
    IN /\ UNCHANGED <<users, now, ticks, retired, req>>
       /\ IF ~guarded.ok
          THEN Stopped("get_contact", guarded, token, contact_id, None)
          ELSE /\ Found("get_contact", 200,
                        [db |-> contacts,
                         contact |-> repository_contacts_get_contact_by_id(
                                        guarded.user, contact_id, contacts)],
                        token, contact_id, None)
               /\ UNCHANGED next_id

create_contact(token, body) ==
    LET guarded == Depends(allowed_operation_create, token)
    IN /\ UNCHANGED <<users, now, ticks, retired, req>>
       /\ IF ~guarded.ok
          THEN Stopped("create_contact", guarded, token, 0, body)
          ELSE /\ next_id <= MaxContacts
               /\ Found("create_contact", 201,
                        repository_contacts_create(guarded.user, body,
                                                   contacts),
                        token, 0, body)
               /\ next_id' = next_id + 1

update_contact(token, contact_id, body) ==
    LET guarded == Depends(allowed_operation_update, token)
    IN /\ UNCHANGED <<users, now, ticks, retired, req>>
       /\ IF ~guarded.ok
          THEN Stopped("update_contact", guarded, token, contact_id, body)
          ELSE /\ Found("update_contact", 200,
                        repository_contacts_update(guarded.user, contact_id,
                                                   body, contacts),
                        token, contact_id, body)
               /\ UNCHANGED next_id

remove_contact(token, contact_id) ==
    LET guarded == Depends(allowed_operation_remove, token)
    IN /\ UNCHANGED <<users, now, ticks, retired, req>>
       /\ IF ~guarded.ok
          THEN Stopped("remove_contact", guarded, token, contact_id, None)
          ELSE /\ Found("remove_contact", 204,
                        repository_contacts_remove(guarded.user, contact_id,
                                                   contacts),
                        token, contact_id, None)
               /\ UNCHANGED next_id

favorite_contact(token, contact_id, is_favorite) ==
    LET guarded == Depends(allowed_operation_update, token)
        body == [is_favorite |-> is_favorite]
    IN /\ UNCHANGED <<users, now, ticks, retired, req>>
       /\ IF ~guarded.ok
          THEN Stopped("favorite_contact", guarded, token, contact_id, body)
          ELSE /\ Found("favorite_contact", 200,
                        repository_contacts_set_favorite(
                           guarded.user, contact_id, is_favorite, contacts),
                        token, contact_id, body)
               /\ UNCHANGED next_id

(* ------------------------ repository/search.py ------------------------ *)
\* SQL LIKE on sequences of characters: % matches any run of characters,
\* _ matches any one character
RECURSIVE LikeMatch(_, _)
LikeMatch(pattern, value) ==
    IF pattern = <<>> THEN value = <<>>
    ELSE IF Head(pattern) = "%"
         THEN \/ LikeMatch(Tail(pattern), value)
              \/ (value # <<>> /\ LikeMatch(pattern, Tail(value)))
         ELSE /\ value # <<>>
              /\ (Head(pattern) = "_" \/ Head(pattern) = Head(value))
              /\ LikeMatch(Tail(pattern), Tail(value))

\* column.like(f'%{partial}%')
like(value, partial) == LikeMatch(<<"%">> \o partial \o <<"%">>, value)

get_contact_by_firstname(user, firstname, db) ==
    {c \in db : c.user_id = user.id /\ like(c.firstname, firstname)}

get_contact_by_lastname(user, lastname, db) ==
    {c \in db : c.user_id = user.id /\ like(c.lastname, lastname)}

get_contact_by_email(user, email, db) ==
    {c \in db : c.user_id = user.id /\ like(c.email, email)}

get_contact_by_phone(user, phone, db) ==
    {c \in db : c.user_id = user.id /\ like(c.phone, phone)}

\* the list the four searches are appended to, as the bag of its items: a
\* contact that matches in several columns is in it several times
get_users_by_partial_info(user, partial_info, db) ==
    LET times(c) ==
            (IF c \in get_contact_by_firstname(user, partial_info, db)
             THEN 1 ELSE 0)
            + (IF c \in get_contact_by_lastname(user, partial_info, db)
               THEN 1 ELSE 0)
            + (IF c \in get_contact_by_email(user, partial_info, db)
               THEN 1 ELSE 0)
            + (IF c \in get_contact_by_phone(user, partial_info, db)
               THEN 1 ELSE 0)
        found == {c \in db : times(c) > 0}
    IN [c \in found |-> times(c)]

\* the proleptic Gregorian calendar of datetime.date
is_leap(year) ==
    year % 4 = 0 /\ (year % 100 # 0 \/ year % 400 = 0)

days_in_month(year, month) ==
    IF month = 2 THEN (IF is_leap(year) THEN 29 ELSE 28)
    ELSE IF month \in {4, 6, 9, 11} THEN 30 ELSE 31

days_before_year(year) ==
    LET y == year - 1
    IN y * 365 + (y \div 4) - (y \div 100) + (y \div 400)

RECURSIVE days_before_month(_, _)
days_before_month(year, month) ==
    IF month = 1 THEN 0
    ELSE days_before_month(year, month - 1) + days_in_month(year, month - 1)

toordinal(d) ==
    days_before_year(d.year) + days_before_month(d.year, d.month) + d.day

\* datetime(year, month, day): ValueError when the month has no such day
datetime_valid(year, month, day) ==
    /\ month \in 1..12
    /\ day \in 1..days_in_month(year, month)

\* evaluated_date of one contact: the days from today to the birthday in
\* this year, or in the next year when that is past; raised is TRUE when
\* one of the datetime constructions raises ValueError
evaluated_date(birthday, today) ==
    IF ~datetime_valid(today.year, birthday.month, birthday.day)
    THEN [raised |-> TRUE, days |-> 0]
    ELSE LET this == toordinal([year |-> today.year,
                                month |-> birthday.month,
                                day |-> birthday.day]) - toordinal(today)
         IN IF this >= 0 THEN [raised |-> FALSE, days |-> this]
            ELSE IF ~datetime_valid(today.year + 1, birthday.month,
                                    birthday.day)
            THEN [raised |-> TRUE, days |-> 0]
            ELSE [raised |-> FALSE,
                  days |-> toordinal([year |-> today.year + 1,
                                      month |-> birthday.month,
                                      day |-> birthday.day])
                           - toordinal(today)]

\* the loop over all contacts of the user: one ValueError ends the call
repository_search_get_birthday_list(user, shift, today, db) ==
    LET all_contacts == {c \in db : c.user_id = user.id}
    IN IF \E c \in all_contacts : evaluated_date(c.birthday, today).raised
       THEN [raised |-> TRUE, contacts |-> {}]
       ELSE [raised |-> FALSE,
             contacts |-> {c \in all_contacts :
                             evaluated_date(c.birthday, today).days <= shift}]

(* --------------------------- routes/search.py -------------------------- *)
\* the request and its answer; found is the bag of the contacts returned
SearchReply(op, status, detail, caller, arg, today, limited, found) ==
    [op |-> op, status |-> status, detail |-> detail, email |-> caller,
     arg |-> arg, today |-> today, limited |-> limited, found |-> found]

\* GET /api/search/shift/{shift}; today is what date.today() reads
get_birthday_list(token, shift, today) ==
    LET current == get_current_user(token)
        Answer(status, detail, found) ==
            SearchReply("get_birthday_list", status, detail, Caller(token),
                        shift, today, FALSE, found)
    IN /\ UNCHANGED <<users, now, ticks, retired, req, contacts, next_id>>
       /\ IF ~current.ok
          THEN resp' = Answer(current.status, current.detail, None)
          ELSE LET out == repository_search_get_birthday_list(
                              users[current.email], shift, today, contacts)
               IN IF out.raised
                  THEN resp' = Answer(500, "ValueError", None)
                  ELSE resp' = Answer(200, "",
                                      [c \in out.contacts |-> 1])

\* GET /api/search/find/{partial_info}; limited is the verdict of the
\* RateLimiter dependency, whose count is kept outside the tables
find_contacts_by_partial_info(token, partial_info, limited) ==
    LET current == get_current_user(token)
        Answer(status, detail, found) ==
            SearchReply("find_contacts_by_partial_info", status, detail,
                        Caller(token), partial_info, None, limited, found)
    IN /\ UNCHANGED <<users, now, ticks, retired, req, contacts, next_id>>
       /\ IF limited
          THEN resp' = Answer(429, "Too Many Requests", None)
          ELSE IF ~current.ok
          THEN resp' = Answer(current.status, current.detail, None)
          ELSE resp' = Answer(200, "",
                              get_users_by_partial_info(
                                  users[current.email], partial_info,
                                  contacts))

(* ------------- class Auth called directly: mint, then verify ----------- *)
\* the expires_delta arguments tried: absent, zero, and two positive numbers
Deltas == {None, [seconds |-> 0], [seconds |-> 1], [seconds |-> AccessTTL]}

MintOps == {"create_access_token", "create_refresh_token",
            "create_email_token"}

\* what a direct call leaves behind: the arguments, the time of the call,
\* the token returned and, once verified, the result of the verification
Minted(op, sub, expires_delta, token) ==
    [op |-> op, sub |-> sub, expires_delta |-> expires_delta, at |-> now,
     token |-> token, verified |-> FALSE, result |-> None]

issue_access_token(sub, expires_delta, us) ==
    /\ resp' = Minted("create_access_token", sub, expires_delta,
                      create_access_token(sub, expires_delta, us))
    /\ UNCHANGED <<users, now, ticks, contacts, next_id, retired, req>>

issue_refresh_token(sub, expires_delta, us) ==
    /\ resp' = Minted("create_refresh_token", sub, expires_delta,
                      create_refresh_token(sub, expires_delta, us))
    /\ UNCHANGED <<users, now, ticks, contacts, next_id, retired, req>>

issue_email_token(sub, us) ==
    /\ resp' = Minted("create_email_token", sub, None,
                      create_email_token(sub, us))
    /\ UNCHANGED <<users, now, ticks, contacts, next_id, retired, req>>

\* the verification that matches the minting operation
VerifyMinted(op, token) ==
    CASE op = "create_access_token" -> get_current_user(token)
      [] op = "create_refresh_token" -> decode_refresh_token(token)
      [] op = "create_email_token" -> get_email_from_token(token)

\* verify the token held from the last mint
verify_minted ==
    /\ resp.op \in MintOps
    /\ ~resp.verified
    /\ resp' = [resp EXCEPT !.verified = TRUE,
                            !.result = VerifyMinted(resp.op, resp.token)]
    /\ UNCHANGED <<users, now, ticks, contacts, next_id, retired, req>>

(* ---------------- refresh_token, one directory call at a time ----------- *)
\* each worker serves one refresh request
Idle == [pc |-> "idle", token |-> None, email |-> NoEmail, user |-> None,
         status |-> 0, at |-> 0, raced |-> FALSE]

\* lines 76-77: decode the token and load the row; at is the time of the
\* request, raced records that the other worker has loaded the row for the
\* same token and not yet written
refresh_lookup(w, token) ==
    LET decoded == decode_refresh_token(token)
        other == CHOOSE o \in Workers : o # w
    IN /\ req[w].pc = "idle"
       /\ UNCHANGED <<users, now, ticks, contacts, next_id, retired>>
       /\ IF ~decoded.ok
          THEN /\ req' = [req EXCEPT ![w] = [Idle EXCEPT !.pc = "done",
                              !.token = token, !.status = decoded.status,
                              !.at = now]]
               /\ resp' = Response("refresh_token", decoded.status,
                                   decoded.detail, NoEmail, NoPassword, token,
                                   None, None, RetiredBy(token))
          ELSE /\ req' = [req EXCEPT ![w] =
                            [pc |-> "loaded", token |-> token,
                             email |-> decoded.email,
                             user |-> get_user_by_email(decoded.email, users),
                             status |-> 0, at |-> now,
                             raced |-> req[other].pc = "loaded"
                                       /\ req[other].token = token]]
               /\ resp' = resp

\* lines 78-86: compare against the loaded row, update, respond
refresh_update(w, us) ==
    LET r == req[w]
    IN /\ r.pc = "loaded"
       /\ UNCHANGED <<now, ticks, contacts, next_id>>
       /\ refresh_finish(r.token, r.email, r.user, us)
       /\ req' = [req EXCEPT ![w].pc = "done",
                             ![w].status =
                                refresh_outcome(r.token, r.email, r.user,
                                                us).status]

(* ------------------- signup, one directory call at a time -------------- *)
\* the unique constraint on the email column of the users table: the
\* commit of a second row with the same email raises IntegrityError
IntegrityError(email, db) == get_user_by_email(email, db) # None

\* lines 29-31: the existence check
signup_lookup(w, email, password) ==
    LET exist_user == get_user_by_email(email, users)
    IN /\ req[w].pc = "idle"
       /\ UNCHANGED <<users, now, ticks, contacts, next_id, retired>>
       /\ IF exist_user # None
          THEN /\ req' = [req EXCEPT ![w] =
                            [pc |-> "done", email |-> email,
                             password |-> password, status |-> 409,
                             inserted |-> FALSE]]
               /\ resp' = Response("signup", 409, "Account already exists",
                                   email, password, None, None, None, {})
          ELSE /\ req' = [req EXCEPT ![w] =
                            [pc |-> "checked", email |-> email,
                             password |-> password, status |-> 0,
                             inserted |-> FALSE]]
               /\ resp' = resp

\* lines 32-37: hash, create_user, respond; nothing catches the error of
\* the commit
signup_create(w, salt) ==
    LET r == req[w]
    IN /\ r.pc = "checked"
       /\ UNCHANGED <<now, ticks, contacts, next_id, retired>>
       /\ IF IntegrityError(r.email, users)
          THEN /\ users' = users
               /\ req' = [req EXCEPT ![w].pc = "done", ![w].status = 500]
               /\ resp' = Response("signup", 500, "IntegrityError",
                                   r.email, r.password, None, None, None, {})
          ELSE /\ users' = create_user(r.email,
                                       get_password_hash(r.password, salt),
                                       users)
               /\ req' = [req EXCEPT ![w].pc = "done", ![w].status = 201,
                                     ![w].inserted = TRUE]
               /\ resp' = Response("signup", 201, "Email confirmed",
                                   r.email, r.password, None, None, None, {})

(* -------------- set_new_password, one directory call at a time --------- *)
\* lines 194-204: decode, load the row, compare the token and the passwords
reset_lookup(w, token, new_password, confirm_password) ==
    LET decoded == get_email_from_token(token)
        user == get_user_by_email(decoded.email, users)
        Done(status) == [pc |-> "done", token |-> token,
                         email |-> NoEmail, new_password |-> new_password,
                         status |-> status, changed |-> FALSE]
    IN /\ req[w].pc = "idle"
       /\ resp' = resp
       /\ UNCHANGED <<users, now, ticks, contacts, next_id, retired>>
       /\ req' = [req EXCEPT ![w] =
             IF ~decoded.ok THEN Done(decoded.status)
             ELSE IF user = None THEN Done(400)
             ELSE IF user.password_reset_token # token THEN Done(401)
             ELSE IF new_password # confirm_password THEN Done(401)
             ELSE [pc |-> "checked", token |-> token,
                   email |-> decoded.email, new_password |-> new_password,
                   status |-> 0, changed |-> FALSE]]

\* lines 205-206: hash the new password and store it
reset_set_password(w, salt) ==
    LET r == req[w]
    IN /\ r.pc = "checked"
       /\ users' = repo_update_password(
                      r.email, get_password_hash(r.new_password, salt), users)
       /\ req' = [req EXCEPT ![w].pc = "stored", ![w].changed = TRUE]
       /\ resp' = resp
       /\ UNCHANGED <<now, ticks, contacts, next_id, retired>>

\* lines 207-208: clear the reset token, respond
reset_clear_token(w) ==
    LET r == req[w]
    IN /\ r.pc = "stored"
       /\ users' = update_reset_token(r.email, None, users)
       /\ req' = [req EXCEPT ![w].pc = "done", ![w].status = 200]
       /\ resp' = Response("set_new_password", 200,
                           "Password successfully updated", r.email,
                           r.new_password, r.token, None, None,
                           RetiredBy(r.token))
       /\ retired' = Retire(r.token, "reset")
       /\ UNCHANGED <<now, ticks, contacts, next_id>>

(* --------------------------- specifications ---------------------------- *)
Init ==
    /\ users = [e \in Emails |-> None]
    /\ now = 0
    /\ ticks = 0
    /\ resp = Response("none", 0, "", NoEmail, NoPassword, None, None, None, {})
    /\ retired = {}
    /\ req = [w \in Workers |-> Idle]
    /\ contacts = {}
    /\ next_id = 1

\* sign-up, confirmation, login, refresh and bearer authentication
NextSession ==
    \/ \E e \in Registrants, p \in {"p1"}, s \in Salts : signup(e, p, s)
    \/ \E e \in Emails, p \in Passwords, us \in USecs : login(e, p, us)
    \/ \E t \in ClientTokens, us \in USecs : refresh_token(t, us)
    \/ \E t \in ClientTokens : confirmed_email(t)
    \/ \E t \in ClientTokens : read_users_me(t)
    \/ \E d \in TickSteps : Tick(d)

SpecSession == Init /\ [][NextSession]_vars

\* sign-up and the password-reset flow
NextReset ==
    \/ \E e \in Registrants, p \in {"p1"}, s \in Salts : signup(e, p, s)
    \/ \E e \in Emails : request_email(e)
    \/ \E e \in Emails : reset_password(e)
    \/ \E t \in ClientTokens, us \in USecs : password_reset_confirm(t, us)
    \/ \E t \in ClientTokens, p \in Passwords, c \in Passwords, s \in Salts :
          update_password(t, p, c, s)
    \/ \E d \in TickSteps : Tick(d)

SpecReset == Init /\ [][NextReset]_vars

\* sign-up, direct calls of the three minting functions, verification
NextMint ==
    \/ \E e \in Registrants, p \in {"p1"}, s \in Salts : signup(e, p, s)
    \/ \E e \in Emails, d \in Deltas, us \in USecs :
          issue_access_token(e, d, us)
    \/ \E e \in Emails, d \in Deltas, us \in USecs :
          issue_refresh_token(e, d, us)
    \/ \E e \in Emails, us \in USecs : issue_email_token(e, us)
    \/ verify_minted
    \/ \E d \in TickSteps : Tick(d)

SpecMint == Init /\ [][NextMint]_vars

\* a users table whose rows were given their roles: alice any role, bob the
\* default one
SeededUsers(role) ==
    [e \in Emails |->
        [NewUser(e, get_password_hash("p1", "s1")) EXCEPT
            !.confirmed = TRUE,
            !.role = IF e = "alice" THEN role ELSE "user"]]

InitSeeded ==
    /\ \E role \in Roles : users = SeededUsers(role)
    /\ now = 0
    /\ ticks = 0
    /\ resp = Response("none", 0, "", NoEmail, NoPassword, None, None, None, {})
    /\ retired = {}
    /\ req = [w \in Workers |-> Idle]
    /\ contacts = {}
    /\ next_id = 1

\* guards of every allow-list, called with every token
NextRole ==
    \/ \E a \in SUBSET Roles, t \in ClientTokens : role_access(a, t)
    \/ \E d \in TickSteps : Tick(d)

SpecRole == InitSeeded /\ [][NextRole]_vars

\* the bearer tokens presented to the contacts routes: the access tokens
\* minted at second 0, one token of another scope, one forged
BearerTokens ==
    {t \in ClientTokens : t.iat = 0 /\ (t.scope = "access_token"
                                         \/ t.sub = "alice")}

\* the contacts routes
NextContacts ==
    \/ \E t \in BearerTokens, l \in Limits, o \in Offsets :
          get_contacts(t, l, o)
    \/ \E t \in BearerTokens, i \in ContactIds : get_contact(t, i)
    \/ \E t \in BearerTokens, b \in Bodies : create_contact(t, b)
    \/ \E t \in BearerTokens, i \in ContactIds, b \in Bodies :
          update_contact(t, i, b)
    \/ \E t \in BearerTokens, i \in ContactIds : remove_contact(t, i)
    \/ \E t \in BearerTokens, i \in ContactIds, f \in BOOLEAN :
          favorite_contact(t, i, f)

SpecContacts == InitSeeded /\ [][NextContacts]_vars

\* the guarded routes called with every kind of bearer token, and with
\* none, while the clock advances
GuardTokens == ClientTokens \cup {None}
GuardBody == CHOOSE b \in Bodies : b.is_favorite

NextGuarded ==
    \/ \E t \in GuardTokens : get_contacts(t, 10, 0)
    \/ \E t \in GuardTokens : get_contact(t, 1)
    \/ \E t \in GuardTokens : create_contact(t, GuardBody)
    \/ \E t \in GuardTokens : update_contact(t, 1, GuardBody)
    \/ \E t \in GuardTokens : remove_contact(t, 1)
    \/ \E t \in GuardTokens : favorite_contact(t, 1, FALSE)
    \/ \E d \in TickSteps : Tick(d)

SpecGuarded == InitSeeded /\ [][NextGuarded]_vars

\* the people stored as contacts in the search runs: text columns are
\* sequences of characters, birthdays are dates
People ==
    {[firstname |-> <<"a", "n">>, lastname |-> <<"l", "e">>,
      email |-> <<"a", "@", "x">>, phone |-> <<"1", "1">>,
      birthday |-> [year |-> 2000, month |-> 2, day |-> 29],
      is_favorite |-> FALSE],
     [firstname |-> <<"b", "o">>, lastname |-> <<"r", "a">>,
      email |-> <<"b", "@", "x">>, phone |-> <<"2", "1">>,
      birthday |-> [year |-> 1999, month |-> 12, day |-> 31],
      is_favorite |-> TRUE],
     [firstname |-> <<"c", "y">>, lastname |-> <<"l", "o">>,
      email |-> <<"c", "@", "y">>, phone |-> <<"1", "2">>,
      birthday |-> [year |-> 1990, month |-> 1, day |-> 1],
      is_favorite |-> FALSE]}

\* the row with the given id for a person stored by the given owner
PersonRow(id, owner, person) ==
    [id |-> id, user_id |-> UserId[owner], firstname |-> person.firstname,
     lastname |-> person.lastname, email |-> person.email,
     phone |-> person.phone, birthday |-> person.birthday,
     is_favorite |-> person.is_favorite]

\* the contacts tables with at most MaxContacts rows, ids 1.. in order
StoredTables ==
    UNION {{ {PersonRow(i, f[i].owner, f[i].person) : i \in 1..n} :
              f \in [1..n -> [owner : Emails, person : People]] } :
           n \in 0..MaxContacts}

PartialInfos == {<<"a">>, <<"z">>, <<"1">>, <<"_">>, <<"l", "e">>}
Shifts == {0, 1, 7}
Todays ==
    {[year |-> 2023, month |-> 12, day |-> 31],
     [year |-> 2024, month |-> 2, day |-> 28],
     [year |-> 2024, month |-> 3, day |-> 1],
     [year |-> 2024, month |-> 12, day |-> 31]}

InitSearch ==
    /\ users = SeededUsers("user")
    /\ now = 0
    /\ ticks = 0
    /\ resp = Response("none", 0, "", NoEmail, NoPassword, None, None, None, {})
    /\ retired = {}
    /\ req = [w \in Workers |-> Idle]
    /\ contacts \in StoredTables
    /\ next_id = Cardinality(contacts) + 1

\* the two search routes over a stored contacts table
NextSearch ==
    \/ \E t \in BearerTokens, sh \in Shifts, today \in Todays :
          get_birthday_list(t, sh, today)
    \/ \E t \in BearerTokens, p \in PartialInfos, limited \in BOOLEAN :
          find_contacts_by_partial_info(t, p, limited)

SpecSearch == InitSearch /\ [][NextSearch]_vars

\* an administrator (alice) and a plain user (bob); bob owns the one
\* contact stored so far
InitShared ==
    /\ users = SeededUsers("admin")
    /\ now = 0
    /\ ticks = 0
    /\ resp = Response("none", 0, "", NoEmail, NoPassword, None, None, None, {})
    /\ retired = {}
    /\ req = [w \in Workers |-> Idle]
    /\ \E p \in People : contacts = {PersonRow(1, "bob", p)}
    /\ next_id = 2

\* the inputs of the requests over the shared table
SharedTokens == {t \in BearerTokens : t.scope = "access_token"} \cup {ForgedToken}
SharedBodies == {p \in People : p.is_favorite}
SharedPartialInfos == {<<"a">>, <<"_">>}
SharedToday == [year |-> 2024, month |-> 12, day |-> 31]

\* the contacts routes and the search routes, called by either principal
NextShared ==
    \/ \E t \in SharedTokens, l \in Limits, o \in Offsets :
          get_contacts(t, l, o)
    \/ \E t \in SharedTokens, i \in ContactIds : get_contact(t, i)
    \/ \E t \in SharedTokens, b \in SharedBodies : create_contact(t, b)
    \/ \E t \in SharedTokens, i \in ContactIds, b \in SharedBodies :
          update_contact(t, i, b)
    \/ \E t \in SharedTokens, i \in ContactIds : remove_contact(t, i)
    \/ \E t \in SharedTokens, i \in ContactIds, f \in BOOLEAN :
          favorite_contact(t, i, f)
    \/ \E t \in SharedTokens, sh \in Shifts :
          get_birthday_list(t, sh, SharedToday)
    \/ \E t \in SharedTokens, p \in SharedPartialInfos :
          find_contacts_by_partial_info(t, p, FALSE)

SpecShared == InitShared /\ [][NextShared]_vars

\* the tokens presented in the account runs: every token of a registrant,
\* and for the other email the tokens minted at second 0
AccountTokens ==
    {t \in ClientTokens : t.sub \in Registrants \/ t.iat = 0}

\* every route of routes/auth.py and the bearer-guarded GET /api/users/me/,
\* one request at a time, within one second
NextAccount ==
    \/ \E e \in Registrants, p \in {"p1"}, s \in Salts : signup(e, p, s)
    \/ \E e \in Emails, p \in Passwords, us \in USecs : login(e, p, us)
    \/ \E t \in AccountTokens, us \in USecs : refresh_token(t, us)
    \/ \E t \in AccountTokens : confirmed_email(t)
    \/ \E e \in Emails : request_email(e)
    \/ \E e \in Emails : reset_password(e)
    \/ \E t \in AccountTokens, us \in USecs : password_reset_confirm(t, us)
    \/ \E t \in AccountTokens, p \in Passwords, c \in Passwords, s \in Salts :
          update_password(t, p, c, s)
    \/ \E t \in AccountTokens : read_users_me(t)

\* the clock reads second 0 or a second after every token of second 0 has
\* expired
InitAccount ==
    /\ users = [e \in Emails |-> None]
    /\ now \in {0, RefreshTTL + 1}
    /\ ticks = 0
    /\ resp = Response("none", 0, "", NoEmail, NoPassword, None, None, None, {})
    /\ retired = {}
    /\ req = [w \in Workers |-> Idle]
    /\ contacts = {}
    /\ next_id = 1

SpecAccount == InitAccount /\ [][NextAccount]_vars

\* two registered and confirmed principals
PairUsers ==
    [e \in Emails |->
        [NewUser(e, get_password_hash("p1", "s1")) EXCEPT !.confirmed = TRUE]]

InitPair ==
    /\ users = PairUsers
    /\ now = 0
    /\ ticks = 0
    /\ resp = Response("none", 0, "", NoEmail, NoPassword, None, None, None, {})
    /\ retired = {}
    /\ req = [w \in Workers |-> Idle]
    /\ contacts = {}
    /\ next_id = 1

\* the routes of routes/auth.py that write refresh_token or
\* password_reset_token, called for either principal with every token
NextPair ==
    \/ \E e \in Emails, us \in USecs : login(e, "p1", us)
    \/ \E t \in ClientTokens, us \in USecs : refresh_token(t, us)
    \/ \E t \in ClientTokens, us \in USecs : password_reset_confirm(t, us)
    \/ \E t \in ClientTokens, s \in Salts : update_password(t, "p1", "p1", s)

SpecPair == InitPair /\ [][NextPair]_vars

\* a reset token is obtained, then two set_new_password requests are
\* interleaved at the directory calls
NextResetRace ==
    \/ \E e \in Registrants, p \in {"p1"}, s \in Salts : signup(e, p, s)
    \/ \E t \in RegistrantTokens("email_token"), us \in USecs :
          password_reset_confirm(t, us)
    \/ \E w \in Workers, t \in RegistrantTokens("email_token"),
          p \in Passwords, c \in Passwords :
          reset_lookup(w, t, p, c)
    \/ \E w \in Workers, s \in Salts : reset_set_password(w, s)
    \/ \E w \in Workers : reset_clear_token(w)
    \/ \E d \in TickSteps : Tick(d)

SpecResetRace == Init /\ [][NextResetRace]_vars

\* two signup requests interleaved at the directory calls
NextSignupRace ==
    \/ \E w \in Workers, e \in Emails, p \in Passwords :
          signup_lookup(w, e, p)
    \/ \E w \in Workers, s \in Salts : signup_create(w, s)

SpecSignupRace == Init /\ [][NextSignupRace]_vars

\* refresh requests of two workers, interleaved at the directory calls
NextRace ==
    \/ \E e \in Registrants, p \in {"p1"}, s \in Salts : signup(e, p, s)
    \/ \E e \in Registrants, p \in {"p1"}, us \in USecs : login(e, p, us)
    \/ \E t \in RegistrantTokens("email_token") : confirmed_email(t)
    \/ \E w \in Workers, t \in RegistrantTokens("refresh_token") :
          refresh_lookup(w, t)
    \/ \E w \in Workers, us \in USecs : refresh_update(w, us)
    \/ \E d \in TickSteps : Tick(d)

SpecRace == Init /\ [][NextRace]_vars

(* ------------------------------- claims -------------------------------- *)
NoTokens(r) == r.access_token = None /\ r.refresh_token = None

\* C1: once a refresh request presenting R has been answered 200, every
\* later refresh request presenting R is answered 401.
C1_RotationSingleUse ==
    (resp.op = "refresh_token" /\ "rotation" \in resp.replayed)
        => resp.status = 401

\* C2: of two refresh requests that present the same stored token and both
\* load the row before either writes it, at most one is answered 200.  The
\* token is taken from an earlier second than the requests, so that the two
\* answers differ from what one request after the other would give.
C2_AtMostOneRefreshWins ==
    ~ \E w1 \in Workers, w2 \in Workers :
        /\ w1 # w2
        /\ req[w1].pc = "done" /\ req[w2].pc = "done"
        /\ req[w1].token = req[w2].token
        /\ req[w1].token.iat < req[w1].at /\ req[w2].token.iat < req[w2].at
        /\ req[w1].raced \/ req[w2].raced
        /\ req[w1].status = 200 /\ req[w2].status = 200

\* C3: a refresh request whose token decodes as a refresh token of an
\* existing principal and differs from the stored refresh_token sets the
\* stored value to None, is answered 401 and returns no tokens.
C3_MismatchClears ==
    [][\A us \in USecs :
        (resp'.op = "refresh_token" /\ refresh_token(resp'.token, us))
        => LET t == resp'.token
               d == decode_refresh_token(t)
           IN (/\ d.ok
               /\ users[d.email] # None
               /\ users[d.email].refresh_token # t)
              => (/\ users'[d.email].refresh_token = None
                  /\ resp'.status = 401
                  /\ NoTokens(resp'))]_vars

\* a refresh token that an earlier refresh has rotated away, presented again
C3_Witness ==
    /\ resp.op = "refresh_token"
    /\ resp.detail = "Invalid refresh token"
    /\ "rotation" \in resp.replayed
    /\ resp.token.exp >= now
    /\ users[resp.email].refresh_token = None

\* the request of the step is the given verification of the token t
Verifies(op, t, us) ==
    CASE op = "read_users_me" -> read_users_me(t)
      [] op = "refresh_token" -> refresh_token(t, us)
      [] op = "confirmed_email" -> confirmed_email(t)
      [] OTHER -> FALSE

\* the scope a verification expects: get_current_user, decode_refresh_token
\* and get_email_from_token
ExpectedScope(op) ==
    CASE op = "read_users_me" -> "access_token"
      [] op = "refresh_token" -> "refresh_token"
      [] op = "confirmed_email" -> "email_token"

Rejected == resp'.status >= 400 /\ NoTokens(resp') /\ users' = users

\* C4: a token the service minted with one scope is rejected by the
\* operations that expect another scope (get_current_user: access_token,
\* decode_refresh_token: refresh_token, get_email_from_token: email_token),
\* and the rejected request changes no row.
C4_ScopeIsolation ==
    [][\A us \in USecs :
        (/\ Verifies(resp'.op, resp'.token, us)
         /\ resp'.token.key = SECRET_KEY
         /\ resp'.token.scope # ExpectedScope(resp'.op))
        => Rejected]_vars

\* an unexpired access token of a logged-in principal, presented to refresh
C4_Witness ==
    /\ resp.op = "refresh_token"
    /\ resp.token.scope = "access_token"
    /\ resp.token.key = SECRET_KEY
    /\ resp.token.exp >= now
    /\ resp.status = 401
    /\ users[resp.token.sub] # None
    /\ users[resp.token.sub].refresh_token # None

\* C5: a token whose exp is in the past is rejected by every verification,
\* whatever its scope and subject; the request issues no token and changes
\* no row.
C5_ExpiredRejected ==
    [][\A us \in USecs :
        (Verifies(resp'.op, resp'.token, us) /\ resp'.token.exp < now)
        => Rejected]_vars

\* the stored refresh token itself, presented after it has expired
C5_Witness ==
    /\ resp.op = "refresh_token"
    /\ resp.token.exp < now
    /\ resp.status = 401
    /\ users[resp.token.sub] # None
    /\ users[resp.token.sub].refresh_token = resp.token

\* C6: a login of an existing, confirmed principal with the right password
\* returns an access and a refresh token for the principal's email, and
\* the stored refresh_token is the returned one afterwards.
C6_LoginStoresToken ==
    [][\A us \in USecs :
        LET e == resp'.email
            p == resp'.password
        IN (/\ resp'.op = "login"
            /\ login(e, p, us)
            /\ users[e] # None
            /\ users[e].confirmed
            /\ verify_password(p, users[e].password))
           => (/\ resp'.status = 200
               /\ resp'.access_token # None
               /\ resp'.access_token.scope = "access_token"
               /\ resp'.access_token.sub = e
               /\ resp'.refresh_token # None
               /\ resp'.refresh_token.scope = "refresh_token"
               /\ resp'.refresh_token.sub = e
               /\ users'[e].refresh_token = resp'.refresh_token)]_vars

\* a login that replaced a different stored token
C6_Witness ==
    /\ resp.op = "login"
    /\ resp.status = 200
    /\ users[resp.email].refresh_token = resp.refresh_token
    /\ \E r \in retired :
          r.by = "login" /\ r.token.sub = resp.email
          /\ r.token # resp.refresh_token

\* C7: login checks unknown email, then unconfirmed, then bad password; each
\* failure is answered 401, issues no tokens and changes no row.
C7_LoginCheckOrder ==
    [][\A us \in USecs :
        LET e == resp'.email
            p == resp'.password
            failed == resp'.status = 401 /\ NoTokens(resp') /\ users' = users
        IN (resp'.op = "login" /\ login(e, p, us))
           => /\ users[e] = None
                   => (failed /\ resp'.detail = "Invalid email")
              /\ (users[e] # None /\ ~users[e].confirmed)
                   => (failed /\ resp'.detail = "Email not confirmed")
              /\ (users[e] # None /\ users[e].confirmed
                                  /\ ~verify_password(p, users[e].password))
                   => (failed /\ resp'.detail = "Invalid password")]_vars

\* an unconfirmed principal logging in with the right password
C7_Witness ==
    /\ resp.op = "login"
    /\ resp.detail = "Email not confirmed"
    /\ users[resp.email] # None
    /\ verify_password(resp.password, users[resp.email].password)

\* C8: a stored refresh token that a later successful login has overwritten
\* is rejected by refresh.
C8_OverwriteInvalidates ==
    (resp.op = "refresh_token" /\ "login" \in resp.replayed)
        => resp.status # 200

\* C9: a valid email token of an unconfirmed principal sets confirmed and
\* nothing else; presented for a confirmed principal it is answered with the
\* already-confirmed message and changes no row.
C9_ConfirmIdempotent ==
    [][(resp'.op = "confirmed_email" /\ confirmed_email(resp'.token))
       => LET d == get_email_from_token(resp'.token)
          IN (d.ok /\ users[d.email] # None)
             => /\ resp'.status = 200
                /\ users' = [users EXCEPT ![d.email].confirmed = TRUE]
                /\ users[d.email].confirmed
                      => (/\ users' = users
                          /\ resp'.detail = "Your email is already confirmed")
                /\ ~users[d.email].confirmed
                      => resp'.detail = "Email confirmed"]_vars

\* a confirmation token presented again after the principal is confirmed
C9_Witness ==
    /\ resp.op = "confirmed_email"
    /\ resp.detail = "Your email is already confirmed"
    /\ resp.token.scope = "email_token"
    /\ users[resp.email].confirmed

\* C10: once set_new_password has succeeded with a reset token, every later
\* set_new_password presenting that token fails.
C10_ResetSingleUse ==
    (resp.op = "set_new_password" /\ "reset" \in resp.replayed)
        => resp.status # 200

\* the step is the set_new_password request that resp' records
SetsNewPassword ==
    /\ resp'.op = "set_new_password"
    /\ \E c \in Passwords, s \in Salts :
          update_password(resp'.token, resp'.password, c, s)

\* C11: set_new_password with a token signed by the service, scoped
\* email_token, whose subject is a principal and which differs from that
\* principal's stored password_reset_token is answered 401 and changes no
\* row.
C11_ResetMismatchRejected ==
    [][(/\ SetsNewPassword
        /\ resp'.token.key = SECRET_KEY
        /\ resp'.token.scope = "email_token"
        /\ users[resp'.token.sub] # None
        /\ users[resp'.token.sub].password_reset_token # resp'.token)
       => (resp'.status = 401 /\ users' = users)]_vars

\* C12: set_new_password with the stored reset token and new_password
\* different from confirm_password is answered 401 and changes no row, so
\* the token is still the stored one afterwards.
C12_PasswordMismatchNoMutation ==
    [][\A c \in Passwords, s \in Salts :
        LET t == resp'.token
            d == get_email_from_token(t)
        IN (/\ resp'.op = "set_new_password"
            /\ update_password(t, resp'.password, c, s)
            /\ d.ok
            /\ users[d.email] # None
            /\ users[d.email].password_reset_token = t
            /\ resp'.password # c)
           => (/\ resp'.status = 401
               /\ resp'.detail = "passwords do not match"
               /\ users' = users
               /\ users'[d.email].password_reset_token = t)]_vars

C12_Witness ==
    /\ resp.op = "set_new_password"
    /\ resp.detail = "passwords do not match"
    /\ users[resp.email].password_reset_token = resp.token

\* C13 as stated: the request step POST /reset_password for a principal
\* stores a reset token on the principal and hands that token out.
C13_RequestStoresToken ==
    [][(/\ resp'.op = "reset_password"
        /\ reset_password(resp'.email)
        /\ users[resp'.email] # None)
       => (/\ users'[resp'.email].password_reset_token # None
           /\ users'[resp'.email].password_reset_token = resp'.access_token)
      ]_vars

\* C13 amended: password_reset_confirm with an email token of a principal
\* mints a reset token, stores exactly that token and returns it; a
\* set_new_password presenting the stored token while it is unexpired, with
\* matching passwords, succeeds and sets the password.
C13_ConfirmStoresToken ==
    [][/\ \A us \in USecs :
            LET d == get_email_from_token(resp'.token)
            IN (/\ resp'.op = "password_reset_confirm"
                /\ password_reset_confirm(resp'.token, us)
                /\ d.ok
                /\ users[d.email] # None)
               => (/\ resp'.status = 200
                   /\ resp'.access_token # None
                   /\ resp'.access_token.scope = "email_token"
                   /\ resp'.access_token.sub = d.email
                   /\ resp'.access_token.exp >= now
                   /\ users'[d.email].password_reset_token
                         = resp'.access_token)
       /\ \A s \in Salts :
            LET t == resp'.token
                d == get_email_from_token(t)
            IN (/\ resp'.op = "set_new_password"
                /\ update_password(t, resp'.password, resp'.password, s)
                /\ d.ok
                /\ users[d.email] # None
                /\ users[d.email].password_reset_token = t)
               => (/\ resp'.status = 200
                   /\ verify_password(resp'.password,
                                      users'[d.email].password))]_vars

\* a reset token handed out, then accepted by set_new_password
C13_Witness ==
    /\ resp.op = "set_new_password"
    /\ resp.status = 200
    /\ users[resp.email].password_reset_token = None
    /\ verify_password(resp.password, users[resp.email].password)

\* C14: RoleAccess is a pure allow-list predicate: for every authenticated
\* principal and every allow-list, the guard lets the request pass exactly
\* when the principal's role is in the list and answers 403 otherwise, with
\* no hierarchy among the roles, and it changes no row.
C14_AllowListOnly ==
    [][(/\ resp'.op = "RoleAccess"
        /\ role_access(resp'.allowed_roles, resp'.token)
        /\ get_current_user(resp'.token).ok)
       => LET user == users[get_current_user(resp'.token).email]
          IN /\ resp'.allowed <=> user.role \in resp'.allowed_roles
             /\ ~resp'.allowed <=> resp'.status = 403
             /\ users' = users
             /\ contacts' = contacts]_vars

\* a user denied by the guard for {admin}
C14_Witness ==
    /\ resp.op = "RoleAccess"
    /\ resp.allowed_roles = {"admin"}
    /\ resp.email # NoEmail
    /\ users[resp.email].role = "user"
    /\ ~resp.allowed
    /\ resp.status = 403

ReadOps == {"get_contacts", "get_contact"}
\* the operations that change or delete a stored contact
DestructiveOps == {"update_contact", "favorite_contact", "remove_contact"}
ContactOps == ReadOps \cup DestructiveOps \cup {"create_contact"}

\* the step is a contacts request of an authenticated principal
ContactRequest ==
    /\ resp'.op \in ContactOps
    /\ resp'.email # NoEmail

\* C15 as stated: reads are allowed for admin, moderator and user, and
\* every operation that changes or deletes a stored contact is answered 403
\* for a user and for a moderator.
C15_DestructiveAdminOnly ==
    [][ContactRequest
       => LET role == users[resp'.email].role
          IN /\ resp'.op \in ReadOps => resp'.status # 403
             /\ (resp'.op \in DestructiveOps /\ role \in {"user", "moderator"})
                => resp'.status = 403]_vars

\* C15 amended: reads and create are allowed for admin, moderator and
\* user; update_contact and favorite_contact are allowed for admin and
\* moderator and answered 403 for a user; remove_contact is allowed for
\* admin only; a request answered 403 changes no row.
C15_EndpointPolicy ==
    [][ContactRequest
       => LET role == users[resp'.email].role
              op == resp'.op
          IN /\ op \in ReadOps \cup {"create_contact"} => resp'.status # 403
             /\ op \in {"update_contact", "favorite_contact"}
                => (resp'.status = 403 <=> role = "user")
             /\ op = "remove_contact"
                => (resp'.status = 403 <=> role # "admin")
             /\ resp'.status = 403
                => (contacts' = contacts /\ users' = users)]_vars

\* a moderator has updated a stored contact
C15_Witness ==
    /\ resp.op = "update_contact"
    /\ resp.email # NoEmail
    /\ users[resp.email].role = "moderator"
    /\ resp.status = 200
    /\ resp.returned \in contacts
    /\ resp.returned.firstname = resp.body.firstname

\* C16: a login with an unknown email and a login with a wrong password for
\* a confirmed principal, one after the other on the same table, get the
\* same status and the same message.
C16_LoginFailuresAlike ==
    [][(/\ resp.op = "login" /\ resp'.op = "login"
        /\ resp.status = 401 /\ resp'.status = 401
        /\ users' = users
        /\ users[resp.email] = None
        /\ users[resp'.email] # None
        /\ users[resp'.email].confirmed
        /\ ~verify_password(resp'.password, users[resp'.email].password))
       => (resp'.status = resp.status /\ resp'.detail = resp.detail)]_vars

\* C17: set_new_password presenting the stored reset token after it has
\* expired, or an unexpired token that differs from the stored one, is
\* answered 401.
C17_ResetExpiredOrMismatch401 ==
    [][(/\ SetsNewPassword
        /\ resp'.token.key = SECRET_KEY
        /\ resp'.token.scope = "email_token"
        /\ users[resp'.token.sub] # None
        /\ LET stored == users[resp'.token.sub].password_reset_token
           IN \/ (resp'.token.exp < now /\ stored = resp'.token)
              \/ (resp'.token.exp >= now /\ stored # resp'.token))
       => resp'.status = 401]_vars

\* C18: a token-consuming request with a token signed by the service,
\* unexpired, of the scope the operation expects, whose subject is no
\* principal, is answered 401 and changes no row.
C18_UnknownSubject401 ==
    [][\A us \in USecs :
        (/\ Verifies(resp'.op, resp'.token, us)
         /\ resp'.token.key = SECRET_KEY
         /\ resp'.token.exp >= now
         /\ resp'.token.scope = ExpectedScope(resp'.op)
         /\ users[resp'.token.sub] = None)
        => (resp'.status = 401 /\ users' = users)]_vars

\* the lifetime C19 states: the supplied number of seconds, the default of
\* the function only when none is supplied
StatedLifetime(op, expires_delta) ==
    IF op # "create_email_token" /\ expires_delta # None
    THEN expires_delta.seconds
    ELSE CASE op = "create_access_token" -> 15 * 60
           [] op = "create_refresh_token" -> 7 * 24 * 60 * 60
           [] op = "create_email_token" -> 7 * 24 * 60 * 60

\* C19: every minted token has exp = issue time + expires_delta seconds for
\* every supplied expires_delta, 0 included, and the default lifetime (15
\* minutes access, 7 days refresh) only when expires_delta is None; email
\* tokens expire 7 days after issue.
C19_LifetimeFromDelta ==
    (resp.op \in MintOps)
    => (/\ resp.token.iat = resp.at
        /\ resp.token.exp
             = resp.at + StatedLifetime(resp.op, resp.expires_delta))

MintScope(op) ==
    CASE op = "create_access_token" -> "access_token"
      [] op = "create_refresh_token" -> "refresh_token"
      [] op = "create_email_token" -> "email_token"

\* the step verifies a minted token before its exp
VerifiesUnexpired ==
    /\ resp.op \in MintOps
    /\ verify_minted
    /\ resp.token.exp >= now

\* C20 as stated: for every subject and every minting function, the
\* matching verification of the unexpired minted token returns the subject
\* that was encoded.
C20_RoundTripEverySubject ==
    [][VerifiesUnexpired
       => (resp'.result.ok /\ resp'.result.email = resp.sub)]_vars

\* C20 amended: the matching verification of the unexpired minted token
\* returns the encoded subject, and the decoded scope is the one the
\* minting function wrote, for refresh and email tokens of every subject
\* and for access tokens whose subject is a principal; get_current_user
\* answers 401 for an access token whose subject is no principal.
C20_RoundTrip ==
    [][VerifiesUnexpired
       => IF resp.op = "create_access_token" /\ users[resp.sub] = None
          THEN ~resp'.result.ok /\ resp'.result.status = 401
          ELSE /\ resp'.result.ok
               /\ resp'.result.email = resp.sub
               /\ jwt_decode(resp.token, SECRET_KEY).ok
               /\ jwt_decode(resp.token, SECRET_KEY).sub = resp.sub
               /\ jwt_decode(resp.token, SECRET_KEY).scope
                    = MintScope(resp.op)]_vars

\* an access token of a principal, verified after time has passed
C20_Witness ==
    /\ resp.op = "create_access_token"
    /\ resp.verified
    /\ resp.result.ok
    /\ resp.result.email = resp.sub
    /\ resp.at < now

\* the caller of the contacts request of this step, once authenticated
CallerRow == users[resp'.email]

\* the stored contacts with the id of the request that the caller owns
OwnedTarget ==
    {c \in contacts : c.id = resp'.contact_id /\ c.user_id = CallerRow.id}

\* the step is the given contacts request by a principal its guard admits
Admitted(op, allowed_roles) ==
    /\ ContactRequest
    /\ resp'.op = op
    /\ CallerRow.role \in allowed_roles

\* the six fields of a ContactModel body
SameAsBody(c, b) ==
    /\ c.firstname = b.firstname /\ c.lastname = b.lastname
    /\ c.email = b.email /\ c.phone = b.phone
    /\ c.birthday = b.birthday /\ c.is_favorite = b.is_favorite

\* C21: create adds one contact whose six fields equal the body's and
\* whose user_id is the caller's id; every contact stored before is
\* unchanged.
C21_CreateAddsOne ==
    [][Admitted("create_contact", allowed_operation_create)
       => LET c == resp'.returned
          IN /\ resp'.status = 201
             /\ c \notin contacts
             /\ \A o \in contacts : o.id # c.id
             /\ contacts' = contacts \cup {c}
             /\ SameAsBody(c, resp'.body)
             /\ c.user_id = CallerRow.id]_vars

\* a contact created next to one stored before
C21_Witness ==
    /\ resp.op = "create_contact"
    /\ resp.status = 201
    /\ resp.returned \in contacts
    /\ resp.returned.is_favorite
    /\ \E o \in contacts : o # resp.returned

\* C22: update on a contact the caller owns replaces its six fields by the
\* body's, keeps id and user_id and returns it; when the caller owns no
\* contact with that id it returns None (404) and changes nothing.
C22_UpdateOwned ==
    [][Admitted("update_contact", allowed_operation_update)
       => IF OwnedTarget = {}
          THEN /\ resp'.returned = None /\ resp'.status = 404
               /\ contacts' = contacts
          ELSE \E c \in OwnedTarget :
                 LET u == resp'.returned
                 IN /\ resp'.status = 200
                    /\ SameAsBody(u, resp'.body)
                    /\ u.id = c.id /\ u.user_id = c.user_id
                    /\ contacts' = (contacts \ {c}) \cup {u}]_vars

\* an owned contact updated to a body it did not have, next to another one
C22_Witness ==
    /\ resp.op = "update_contact"
    /\ resp.status = 200
    /\ resp.returned \in contacts
    /\ resp.returned.phone = "222"
    /\ \E o \in contacts : o.id # resp.returned.id /\ o.phone = "111"

\* C23: remove on a contact the caller owns deletes exactly that contact
\* and returns it, so get_contact_by_id for it then returns None and all
\* other contacts are unchanged; when the caller owns no such contact it
\* returns None (404) and deletes nothing.
C23_RemoveOwned ==
    [][Admitted("remove_contact", allowed_operation_remove)
       => IF OwnedTarget = {}
          THEN /\ resp'.returned = None /\ resp'.status = 404
               /\ contacts' = contacts
          ELSE \E c \in OwnedTarget :
                 /\ resp'.returned = c
                 /\ resp'.status = 204
                 /\ contacts' = contacts \ {c}
                 /\ repository_contacts_get_contact_by_id(
                        CallerRow, resp'.contact_id, contacts') = None]_vars

\* an owned contact removed, another one still stored
C23_Witness ==
    /\ resp.op = "remove_contact"
    /\ resp.status = 204
    /\ resp.returned \notin contacts
    /\ contacts # {}

\* C24: set_favorite on a contact the caller owns sets is_favorite to the
\* body's value and leaves every other field of it and every other contact
\* unchanged; on a contact the caller does not own it returns None (404)
\* and changes nothing.
C24_FavoriteOnly ==
    [][Admitted("favorite_contact", allowed_operation_update)
       => IF OwnedTarget = {}
          THEN /\ resp'.returned = None /\ resp'.status = 404
               /\ contacts' = contacts
          ELSE \E c \in OwnedTarget :
                 LET u == [c EXCEPT !.is_favorite = resp'.body.is_favorite]
                 IN /\ resp'.returned = u
                    /\ resp'.status = 200
                    /\ contacts' = (contacts \ {c}) \cup {u}]_vars

\* a favorite turned back into an ordinary contact
C24_Witness ==
    /\ resp.op = "favorite_contact"
    /\ resp.status = 200
    /\ resp.returned \in contacts
    /\ ~resp.returned.is_favorite
    /\ resp.returned.firstname = "Bo"

\* the step is a search request by an authenticated caller
SearchRequest(op) ==
    /\ resp'.op = op
    /\ resp'.email # NoEmail

\* C25: find_contacts_by_partial_info answers 404 whenever no contact of
\* the caller matches the search string in firstname, lastname, email or
\* phone.
C25_NoMatchIs404 ==
    [][(/\ SearchRequest("find_contacts_by_partial_info")
        /\ ~resp'.limited
        /\ \A c \in contacts :
              c.user_id = CallerRow.id
              => /\ ~like(c.firstname, resp'.arg)
                 /\ ~like(c.lastname, resp'.arg)
                 /\ ~like(c.email, resp'.arg)
                 /\ ~like(c.phone, resp'.arg))
       => resp'.status = 404]_vars

\* the days from today to the next occurrence of the birthday's month and
\* day in this year or the next; -1 when neither year has that day
NextOccurrence(birthday, today) ==
    LET on(y) == toordinal([year |-> y, month |-> birthday.month,
                            day |-> birthday.day]) - toordinal(today)
        has(y) == datetime_valid(y, birthday.month, birthday.day)
    IN IF has(today.year) /\ on(today.year) >= 0 THEN on(today.year)
       ELSE IF has(today.year + 1) THEN on(today.year + 1)
       ELSE 0 - 1

\* C26: get_birthday_list terminates for every stored birthday and returns
\* exactly the caller's contacts whose next birthday (same month and day,
\* this year or next) is between 0 and shift days from today, 29 February
\* and the end of a year included.
C26_BirthdayWindow ==
    [][SearchRequest("get_birthday_list")
       => /\ resp'.status = 200
          /\ DOMAIN resp'.found
               = {c \in contacts :
                    /\ c.user_id = CallerRow.id
                    /\ NextOccurrence(c.birthday, resp'.today)
                          \in 0..resp'.arg}]_vars

C28_SignupUnique ==
    /\ \A e \in Emails :
          Cardinality({w \in Workers : /\ req[w].pc = "done"
                                      /\ req[w].email = e
                                      /\ req[w].inserted}) <= 1
    /\ \A w \in Workers :
          (req[w].pc = "done" /\ ~req[w].inserted) => req[w].status = 409

\* C29: of two set_new_password requests that present the same stored
\* reset token and are interleaved at the directory calls, at most one
\* changes the password.
C29_AtMostOneResetWins ==
    \A v, w \in Workers :
        (/\ v # w
         /\ req[v].pc \in {"stored", "done"}
         /\ req[w].pc \in {"stored", "done"}
         /\ req[v].token = req[w].token)
        => ~(req[v].changed /\ req[w].changed)

GuardOf(op) ==
    CASE op \in ReadOps -> allowed_operation_get
      [] op = "create_contact" -> allowed_operation_create
      [] op \in {"update_contact", "favorite_contact"}
           -> allowed_operation_update
      [] op = "remove_contact" -> allowed_operation_remove

\* C31: on every role-guarded route a request whose bearer token is
\* missing, invalid, expired or of another scope (no principal is
\* resolved) is answered 401, never 403, and changes nothing; 403 goes only
\* to an authenticated principal whose role the guard does not list.
C31_AuthenticationFirst ==
    [][(resp'.op \in ContactOps /\ resp' # resp)
       => /\ resp'.email = NoEmail
             => /\ resp'.status = 401
                /\ contacts' = contacts
          /\ resp'.status = 403
             => /\ resp'.email # NoEmail
                /\ users[resp'.email].role \notin GuardOf(resp'.op)
          /\ resp'.status = 401 => resp'.email = NoEmail]_vars

\* an expired access token of a principal whose role the guard does not
\* list was answered 401
C31_Witness ==
    /\ resp.op = "remove_contact"
    /\ resp.status = 401
    /\ resp.email = NoEmail
    /\ now > AccessTTL
    /\ \A e \in Emails : users[e].role # "admin"

\* the token fails decode_refresh_token: signed with another key, expired,
\* or of a scope other than refresh_token
FailsRefreshDecoding(t) ==
    t.key # SECRET_KEY \/ t.exp < now \/ t.scope # "refresh_token"

\* C32: a refresh request whose token fails decoding (bad signature, expired,
\* scope other than refresh_token) is answered 401, returns no tokens and
\* leaves every principal's stored refresh_token unchanged; a stored
\* refresh_token is cleared by a refresh request only when the token decodes
\* as a refresh token of that principal and differs from the stored value.
C32_DecodeFailureKeepsStored ==
    [][\A us \in USecs :
        (resp'.op = "refresh_token" /\ refresh_token(resp'.token, us))
        => LET t == resp'.token
           IN /\ FailsRefreshDecoding(t)
                 => (/\ resp'.status = 401
                     /\ NoTokens(resp')
                     /\ users' = users)
              /\ \A e \in Emails :
                    (/\ users[e] # None
                     /\ users[e].refresh_token # None
                     /\ users'[e].refresh_token = None)
                    => (/\ ~FailsRefreshDecoding(t)
                        /\ t.sub = e
                        /\ t # users[e].refresh_token)]_vars

\* an access token of a logged-in principal presented to the refresh route
C32_Witness ==
    /\ resp.op = "refresh_token"
    /\ resp.status = 401
    /\ resp.token.key = SECRET_KEY
    /\ resp.token.scope = "access_token"
    /\ resp.token.exp >= now
    /\ users[resp.token.sub] # None
    /\ users[resp.token.sub].refresh_token # None

\* C33: in every state a principal whose stored refresh_token is not None is
\* confirmed, and a step leaves a refresh token in a principal's row only by
\* keeping the stored one, by a successful login of that principal, or by a
\* successful refresh that presented the token stored at that moment.
C33_StoredImpliesConfirmed ==
    [][\A e \in Emails :
        (users'[e] # None /\ users'[e].refresh_token # None)
        => /\ users'[e].confirmed
           /\ \/ /\ users[e] # None
                 /\ users[e].refresh_token = users'[e].refresh_token
              \/ /\ resp'.op = "login"
                 /\ resp'.status = 200
                 /\ resp'.email = e
                 /\ resp'.refresh_token = users'[e].refresh_token
              \/ /\ resp'.op = "refresh_token"
                 /\ resp'.status = 200
                 /\ users[e] # None
                 /\ resp'.token = users[e].refresh_token
                 /\ resp'.token.sub = e
                 /\ resp'.refresh_token = users'[e].refresh_token]_vars

\* a confirmed principal holds the token a successful rotation has stored
C33_Witness ==
    /\ resp.op = "refresh_token"
    /\ resp.status = 200
    /\ users[resp.email].confirmed
    /\ users[resp.email].refresh_token = resp.refresh_token
    /\ resp.refresh_token # None

\* C34: every stored refresh_token that is not None is a refresh-scoped token
\* whose subject is the email of the row that holds it, and every stored
\* password_reset_token that is not None is an email-scoped token whose
\* subject is the email of the row that holds it.
C34_StoredTokensOwnSubject ==
    \A e \in Emails :
        users[e] # None
        => /\ users[e].refresh_token # None
              => (/\ users[e].refresh_token.scope = "refresh_token"
                  /\ users[e].refresh_token.sub = e
                  /\ users[e].refresh_token.key = SECRET_KEY)
           /\ users[e].password_reset_token # None
              => (/\ users[e].password_reset_token.scope = "email_token"
                  /\ users[e].password_reset_token.sub = e
                  /\ users[e].password_reset_token.key = SECRET_KEY)

\* both principals hold tokens of both kinds at once
C34_Witness ==
    \A e \in Emails :
        /\ users[e].refresh_token # None
        /\ users[e].password_reset_token # None

\* C35: get_current_user accepts every unexpired access token of an existing
\* principal, whatever the stored refresh_token of that principal is: a
\* bearer request with such a token is answered 200 for the token's subject.
C35_AccessTokenStateless ==
    [][(resp'.op = "read_users_me" /\ read_users_me(resp'.token))
       => LET t == resp'.token
          IN (/\ t.key = SECRET_KEY
              /\ t.scope = "access_token"
              /\ t.exp >= now
              /\ users[t.sub] # None)
             => (/\ resp'.status = 200
                 /\ resp'.email = t.sub)]_vars

\* an access token is accepted after the refresh token issued with it was
\* rotated, the stored refresh_token was then cleared by a mismatch, and the
\* password was reset
C35_Witness ==
    /\ resp.op = "read_users_me"
    /\ resp.status = 200
    /\ users[resp.email].refresh_token = None
    /\ \E r \in retired :
          /\ r.by = "rotation"
          /\ r.token.sub = resp.email
          /\ r.token.iat = resp.token.iat
    /\ \E r \in retired : r.by = "reset" /\ r.token.sub = resp.email

\* C36: set_new_password with the stored reset token and matching passwords
\* succeeds whether or not the principal is confirmed; a successful
\* set_new_password changes the password and password_reset_token of its
\* principal and nothing else (refresh_token, confirmed, role, email and
\* every other row stay); and a refresh request presenting the stored,
\* unexpired refresh token is accepted, also after a reset.
C36_ResetTouchesOnlyPassword ==
    [][\A c \in Passwords, s \in Salts, us \in USecs :
        LET t == resp'.token
            d == get_email_from_token(t)
        IN /\ (resp'.op = "set_new_password"
               /\ update_password(t, resp'.password, c, s))
              => /\ (/\ d.ok
                     /\ users[d.email] # None
                     /\ users[d.email].password_reset_token = t
                     /\ resp'.password = c)
                    => resp'.status = 200
                 /\ resp'.status = 200
                    => users' = [users EXCEPT
                           ![resp'.email].password =
                               get_password_hash(resp'.password, s),
                           ![resp'.email].password_reset_token = None]
           /\ (/\ resp'.op = "refresh_token"
               /\ refresh_token(t, us)
               /\ users[t.sub] # None
               /\ users[t.sub].refresh_token = t
               /\ t.exp >= now)
              => resp'.status = 200]_vars

\* a logged-in principal has set the new password p2: the refresh token
\* issued before the reset is still the stored one
C36_Witness ==
    /\ resp.op = "set_new_password"
    /\ resp.status = 200
    /\ resp.password = "p2"
    /\ users[resp.email].password = get_password_hash("p2", "s1")
    /\ users[resp.email].password_reset_token = None
    /\ users[resp.email].refresh_token # None
    /\ users[resp.email].refresh_token.exp >= now

\* a principal that was never confirmed has set a new password
C36_UnconfirmedReset ==
    /\ resp.op = "set_new_password"
    /\ resp.status = 200
    /\ ~users[resp.email].confirmed

\* a refresh is accepted after the principal's password was reset
C36_RefreshAfterReset ==
    /\ resp.op = "refresh_token"
    /\ resp.status = 200
    /\ \E r \in retired : r.by = "reset" /\ r.token.sub = resp.email

\* C37: the password of an existing principal changes only in a successful
\* set_new_password whose token is signed by the service, unexpired,
\* email-scoped, has that principal as its subject and is the principal's
\* stored password_reset_token, and whose new_password equals
\* confirm_password; no other step changes a password.
C37_PasswordChangesOnlyByReset ==
    [][\A e \in Emails :
        (users[e] # None /\ users'[e].password # users[e].password)
        => LET t == resp'.token
           IN /\ resp'.op = "set_new_password"
              /\ resp'.status = 200
              /\ resp'.email = e
              /\ t.key = SECRET_KEY
              /\ t.exp >= now
              /\ t.scope = "email_token"
              /\ t.sub = e
              /\ users[e].password_reset_token = t
              /\ \E s \in Salts :
                    update_password(t, resp'.password, resp'.password, s)]_vars

\* the password given at signup was replaced through the reset flow at a time
\* when expired tokens exist
C37_Witness ==
    /\ resp.op = "set_new_password"
    /\ resp.status = 200
    /\ resp.token.sub = resp.email
    /\ resp.token.scope = "email_token"
    /\ now > RefreshTTL
    /\ verify_password("p2", users[resp.email].password)

SearchOps == {"get_birthday_list", "find_contacts_by_partial_info"}
ByIdOps == {"get_contact", "update_contact", "remove_contact",
            "favorite_contact"}

\* the contacts of the table that the given principal does not own
OwnedByOthers(email, db) == {c \in db : c.user_id # UserId[email]}

\* the contacts a response hands to the client
Handed(r) ==
    IF r.status \notin {200, 201, 204} THEN {}
    ELSE IF r.op \in SearchOps THEN DOMAIN r.found
    ELSE IF r.op = "get_contacts" THEN r.returned
    ELSE {r.returned}

\* C38: a contact or search request made by an authenticated principal hands
\* back only contacts that principal owns and leaves the contacts of every
\* other principal as they were; a request by id for a contact of another
\* principal gets None from the repository (answered 404).
C38_OwnershipIsolation ==
    [][(/\ resp'.op \in ContactOps \cup SearchOps
        /\ resp' # resp
        /\ resp'.email # NoEmail)
       => /\ \A c \in Handed(resp') : c.user_id = UserId[resp'.email]
          /\ OwnedByOthers(resp'.email, contacts')
                = OwnedByOthers(resp'.email, contacts)
          /\ (/\ resp'.op \in ByIdOps
              /\ \E c \in OwnedByOthers(resp'.email, contacts) :
                    c.id = resp'.contact_id)
             => (/\ resp'.returned = None
                 /\ resp'.status \in {403, 404}
                 /\ contacts' = contacts)]_vars

\* the administrator asked to remove a contact of the other principal and
\* was answered 404; the contact is still in the table
C38_Witness ==
    /\ resp.op = "remove_contact"
    /\ resp.status = 404
    /\ resp.email = "alice"
    /\ \E c \in contacts : c.id = resp.contact_id /\ c.user_id = UserId["bob"]
    /\ \E c \in contacts : c.user_id = UserId["alice"]

C40_NoLockout ==
    [][\A us \in USecs :
        LET e == resp'.email
            r == resp'.refresh_token
        IN (/\ resp'.op = "login"
            /\ login(e, resp'.password, us)
            /\ users[e] # None
            /\ users[e].confirmed
            /\ verify_password(resp'.password, users[e].password))
           => (/\ resp'.status = 200
               /\ r # None
               /\ users'[e].refresh_token = r
               /\ decode_refresh_token(r).ok
               /\ decode_refresh_token(r).email = e
               /\ refresh_outcome(r, e, users'[e], us).status = 200)]_vars

\* a login with the password set by a reset replaced a stored refresh token
\* while a new reset token was pending
C40_Witness ==
    /\ resp.op = "login"
    /\ resp.status = 200
    /\ resp.password = "p2"
    /\ users[resp.email].password_reset_token # None
    /\ users[resp.email].refresh_token = resp.refresh_token
    /\ \E r \in retired : r.by = "login" /\ r.token.sub = resp.email

====
